---- MODULE Spec2Model ----
(***************************************************************************)
(* Model of the demand-forecasting core of src/sw.js: SimpleARIMA,         *)
(* SimpleSARIMA and ForecastingEngine.                                     *)
(*                                                                         *)
(* JavaScript Numbers are modelled as exact rationals extended with NaN    *)
(* and +/-Infinity (the values IEEE-754 arithmetic adds to the reals);     *)
(* rounding error of binary floating point is not modelled.  Rationals     *)
(* carry arbitrary-precision numerators and denominators (sequences of     *)
(* limbs), so that no intermediate product is ever truncated.              *)
(***************************************************************************)
EXTENDS Integers, Sequences, FiniteSets, TLC

\* ------------------------------------------------------------------------
\* Arbitrary-precision naturals: little-endian limb sequences, <<>> is zero
\* ------------------------------------------------------------------------
LimbBase == 100 * 100

RECURSIVE NatOfInt(_)
NatOfInt(i) ==
    IF i = 0 THEN <<>> ELSE <<i % LimbBase>> \o NatOfInt(i \div LimbBase)

\* limb i of a, 0 above its top limb
Limb(a, i) == IF i <= Len(a) THEN a[i] ELSE 0

\* a without the zero limbs above its value
NatNorm(a) ==
    LET t == SubSeq(a, 1, Len(a))
        top == IF \A i \in 1..Len(t) : t[i] = 0 THEN 0
               ELSE CHOOSE i \in 1..Len(t) :
                        t[i] # 0 /\ \A j \in (i + 1)..Len(t) : t[j] = 0
    IN  SubSeq(t, 1, top)

\* the carry into limb i of a + b: a limb below makes one and the limbs
\* between pass it on
NatCarry(a, b, i) ==
    \E j \in 1..(i - 1) :
        /\ Limb(a, j) + Limb(b, j) >= LimbBase
        /\ \A k \in (j + 1)..(i - 1) : Limb(a, k) + Limb(b, k) = LimbBase - 1

NatAdd(a, b) ==
    NatNorm([i \in 1..((IF Len(a) > Len(b) THEN Len(a) ELSE Len(b)) + 1) |->
                (Limb(a, i) + Limb(b, i) +
                 (IF NatCarry(a, b, i) THEN 1 ELSE 0)) % LimbBase])

\* -1, 0 or 1 as a < b, a = b or a > b
NatCmp(a, b) ==
    IF Len(a) < Len(b) THEN -1
    ELSE IF Len(a) > Len(b) THEN 1
    ELSE IF a = b THEN 0
    ELSE IF \E i \in 1..Len(a) :
                a[i] < b[i] /\ \A j \in (i + 1)..Len(a) : a[j] = b[j]
    THEN -1
    ELSE 1

\* the borrow out of the limbs of a - b below limb i
NatBorrow(a, b, i) ==
    \E j \in 1..(i - 1) :
        /\ a[j] < Limb(b, j)
        /\ \A k \in (j + 1)..(i - 1) : a[k] = Limb(b, k)

\* a - b for a >= b
NatSub(a, b) ==
    NatNorm([i \in 1..Len(a) |->
                (a[i] - Limb(b, i) - (IF NatBorrow(a, b, i) THEN 1 ELSE 0)
                 + LimbBase) % LimbBase])

\* a * k for a limb k: the low halves of the products plus the high halves
NatMulLimb(a, k) ==
    IF k = 0 THEN <<>>
    ELSE NatAdd([i \in 1..Len(a) |-> (a[i] * k) % LimbBase],
                <<0>> \o [i \in 1..Len(a) |-> (a[i] * k) \div LimbBase])

RECURSIVE NatMulRange(_, _, _, _)
\* a * (the limbs lo..hi of b, limb lo counting as the units)
NatMulRange(a, b, lo, hi) ==
    IF lo = hi THEN NatMulLimb(a, b[lo])
    ELSE NatAdd(NatMulRange(a, b, lo, (lo + hi) \div 2),
                [i \in 1..((lo + hi) \div 2 + 1 - lo) |-> 0] \o
                NatMulRange(a, b, (lo + hi) \div 2 + 1, hi))

NatMul(a, b) ==
    IF a = <<>> \/ b = <<>> THEN <<>>
    ELSE IF b = <<1>> THEN a
    ELSE IF a = <<1>> THEN b
    ELSE NatMulRange(a, b, 1, Len(b))

RECURSIVE NatQDigit(_, _, _, _)
\* the largest x in lo..hi with b * x <= cur
NatQDigit(cur, b, lo, hi) ==
    IF lo = hi THEN lo
    ELSE LET mid == (lo + hi + 1) \div 2
         IN  IF NatCmp(NatMulLimb(b, mid), cur) <= 0
             THEN NatQDigit(cur, b, mid, hi)
             ELSE NatQDigit(cur, b, lo, mid - 1)

\* one step of long division: the quotient digit x of cur, put before q
NatDivDigit(q, cur, b, x) ==
    [q |-> <<x>> \o q, r |-> NatSub(cur, NatMulLimb(b, x))]

\* the limb brought down to the remainder of the limbs above it
NatDivNext(prev, limb, b) ==
    NatDivDigit(prev.q, NatNorm(<<limb>> \o prev.r), b,
                NatQDigit(NatNorm(<<limb>> \o prev.r), b, 0, LimbBase - 1))

RECURSIVE NatDivModFrom(_, _, _, _)
\* long division by b of the limbs of a, prev that of the limbs above limb i
NatDivModFrom(a, b, i, prev) ==
    IF i = 0 THEN prev
    ELSE IF prev.r = <<>> /\ a[i] = 0
    THEN NatDivModFrom(a, b, i - 1, [q |-> <<0>> \o prev.q, r |-> <<>>])
    ELSE NatDivModFrom(a, b, i - 1, NatDivNext(prev, a[i], b))

\* quotient q (limbs above its value may be 0) and remainder r of a by b
NatDivMod(a, b) == NatDivModFrom(a, b, Len(a), [q |-> <<>>, r |-> <<>>])

\* a natural below LimbBase^2 as an integer
NatToInt(a) ==
    IF a = <<>> THEN 0
    ELSE IF Len(a) = 1 THEN a[1] ELSE a[1] + LimbBase * a[2]

RECURSIVE Gcd(_, _)
Gcd(x, y) == IF y = 0 THEN x ELSE Gcd(y, x % y)

\* ------------------------------------------------------------------------
\* JavaScript Number: k = "num" (s * n / d), "nan" or "inf" (s * Infinity)
\* ------------------------------------------------------------------------
NaN == [k |-> "nan", s |-> 0, n |-> <<>>, d |-> <<1>>]
Inf(sg) == [k |-> "inf", s |-> sg, n |-> <<>>, d |-> <<1>>]
Zero == [k |-> "num", s |-> 0, n |-> <<>>, d |-> <<1>>]

\* s * n / d, in lowest terms whenever n and d are below LimbBase^2
MkReduced(sg, a, b, g) ==
    [k |-> "num", s |-> sg, n |-> NatOfInt(a \div g), d |-> NatOfInt(b \div g)]

Mk(sg, n, d) ==
    IF n = <<>> \/ sg = 0 THEN Zero
    ELSE IF Len(n) <= 2 /\ Len(d) <= 2
    THEN MkReduced(sg, NatToInt(n), NatToInt(d), Gcd(NatToInt(n), NatToInt(d)))
    ELSE [k |-> "num", s |-> sg, n |-> n, d |-> d]

Sign(i) == IF i < 0 THEN -1 ELSE IF i = 0 THEN 0 ELSE 1
NumOfInt(i) == Mk(Sign(i), NatOfInt(IF i < 0 THEN -i ELSE i), <<1>>)
Frac(a, b) == Mk(Sign(a), NatOfInt(IF a < 0 THEN -a ELSE a), NatOfInt(b))

IsNaN(x) == x.k = "nan"
IsNum(x) == x.k = "num"

NumNeg(x) == [x EXCEPT !.s = -x.s]

\* sx * a / d + sy * b / d for non-zero signs sx, sy
NumAddAligned(sx, a, sy, b, d) ==
    Mk(IF sx = sy \/ NatCmp(a, b) > 0 THEN sx ELSE sy,
       IF sx = sy THEN NatAdd(a, b)
       ELSE IF NatCmp(a, b) = 0 THEN <<>>
       ELSE IF NatCmp(a, b) > 0 THEN NatSub(a, b) ELSE NatSub(b, a),
       d)

\* x + y
NumAdd(x, y) ==
    IF IsNaN(x) \/ IsNaN(y) THEN NaN
    ELSE IF x.k = "inf" THEN (IF y.k = "inf" /\ y.s # x.s THEN NaN ELSE x)
    ELSE IF y.k = "inf" THEN y
    ELSE IF x.s = 0 THEN y
    ELSE IF y.s = 0 THEN x
    ELSE IF x.d = y.d THEN NumAddAligned(x.s, x.n, y.s, y.n, x.d)
    ELSE NumAddAligned(x.s, NatMul(x.n, y.d), y.s, NatMul(y.n, x.d),
                       NatMul(x.d, y.d))

NumSub(x, y) == NumAdd(x, NumNeg(y))

\* x * y
NumMul(x, y) ==
    IF IsNaN(x) \/ IsNaN(y) THEN NaN
    ELSE IF x.k = "inf" \/ y.k = "inf"
    THEN (IF x.s * y.s = 0 THEN NaN ELSE Inf(x.s * y.s))
    ELSE Mk(x.s * y.s, NatMul(x.n, y.n), NatMul(x.d, y.d))

\* x / y: 0 / 0 is NaN, a non-zero number over 0 is an infinity
NumDiv(x, y) ==
    IF IsNaN(x) \/ IsNaN(y) THEN NaN
    ELSE IF x.k = "inf" THEN (IF y.k = "inf" THEN NaN
                              ELSE Inf(IF y.s < 0 THEN -x.s ELSE x.s))
    ELSE IF y.k = "inf" THEN Zero
    ELSE IF y.s = 0 THEN (IF x.s = 0 THEN NaN ELSE Inf(x.s))
    ELSE Mk(x.s * y.s, NatMul(x.n, y.d), NatMul(x.d, y.n))

\* -1, 0, 1 for two values that are not NaN
NumCmp(x, y) ==
    IF x.k = "inf" \/ y.k = "inf"
    THEN (IF x.k = "inf" /\ y.k = "inf" THEN Sign(x.s - y.s)
          ELSE IF x.k = "inf" THEN x.s ELSE -y.s)
    ELSE IF x.s # y.s THEN Sign(x.s - y.s)
    ELSE IF x.s = 0 THEN 0
    ELSE x.s * NatCmp(NatMul(x.n, y.d), NatMul(y.n, x.d))

\* JavaScript comparisons: every comparison with NaN is false
NumLt(x, y) == ~IsNaN(x) /\ ~IsNaN(y) /\ NumCmp(x, y) < 0
NumLe(x, y) == ~IsNaN(x) /\ ~IsNaN(y) /\ NumCmp(x, y) <= 0
NumGt(x, y) == NumLt(y, x)
NumEq(x, y) == ~IsNaN(x) /\ ~IsNaN(y) /\ NumCmp(x, y) = 0

\* the same value, NaN included (Object.is up to the sign of zero)
SameNum(x, y) == (IsNaN(x) /\ IsNaN(y)) \/ NumEq(x, y)

\* Math.max(0, x): NaN if x is NaN
NumMax0(x) == IF IsNaN(x) THEN NaN ELSE IF NumLt(x, Zero) THEN Zero ELSE x

\* Math.abs(x)
NumAbs(x) == IF x.s < 0 THEN NumNeg(x) ELSE x

\* the integer at or below x, whose magnitude has the integer quotient q
NumFloorOf(x, q) ==
    IF x.s > 0 \/ NatCmp(NatMul(q, x.d), x.n) = 0 THEN Mk(x.s, q, <<1>>)
    ELSE Mk(-1, NatAdd(q, <<1>>), <<1>>)

\* Math.floor(x)
NumFloor(x) ==
    IF x.k # "num" \/ x.s = 0 THEN x ELSE 
    NumFloorOf(x, NatNorm(NatDivMod(x.n, x.d).q))

\* Math.round(x): the nearest integer, halves towards +Infinity
NumRound(x) == IF x.k # "num" THEN x ELSE NumFloor(NumAdd(x, Frac(1, 2)))

\* ------------------------------------------------------------------------
\* Arrays: a[i] with a 0-based index, undefined (NaN in arithmetic) outside
\* ------------------------------------------------------------------------
At(a, i) == IF i >= 0 /\ i < Len(a) THEN a[i + 1] ELSE NaN

\* a.slice(-k): the last k elements; slice(-0) is slice(0), the whole array
SliceLast(a, k) ==
    IF k = 0 \/ k >= Len(a) THEN a ELSE SubSeq(a, Len(a) - k + 1, Len(a))

\* a.reduce((x, y) => x + y, 0)
RECURSIVE NumSumFrom(_, _, _)
\* sum + a[i] + a[i + 1] + ..., from the left; NaN as soon as the sum is NaN
NumSumFrom(a, i, sum) ==
    IF i > Len(a) \/ IsNaN(sum) THEN sum
    ELSE NumSumFrom(a, i + 1, NumAdd(sum, a[i]))

NumSum(a) == NumSumFrom(a, 1, Zero)

Max(a, b) == IF a >= b THEN a ELSE b

\* ------------------------------------------------------------------------
\* class SimpleARIMA
\* ------------------------------------------------------------------------
\* new SimpleARIMA(p, d, q): this.data is not set by the constructor
NewARIMA(p, d, q) ==
    [cls |-> "ARIMA", p |-> p, d |-> d, q |-> q,
     P |-> 0, D |-> 0, Q |-> 0, s |-> 0,
     phi |-> <<>>, theta |-> <<>>,
     hasData |-> FALSE, data |-> <<>>, hasSeason |-> "undefined"]

\* one pass of difference(): result[j] - result[j-1] for j = 1 .. length-1
Diff1(a) == [j \in 1..(Len(a) - 1) |-> NumSub(a[j + 1], a[j])]

RECURSIVE difference(_, _)
difference(data, order) ==
    IF order = 0 THEN data ELSE Diff1(difference(data, order - 1))

\* data.reduce((a, b) => a + b, 0) / data.length
Mean(data) == NumDiv(NumSum(data), NumOfInt(Len(data)))

\* data[i] - mean, for every i
Centered(data, mean) == [i \in 1..Len(data) |-> NumSub(data[i], mean)]

\* the sum of c[i] * c[i + lag] over i < length - lag
LagProducts(c, lag) ==
    NumSum([i \in 1..Max(0, Len(c) - lag) |-> NumMul(c[i], c[i + lag])])

\* numerator / denominator, from the centered data c
AutocorrelationOf(c, lag) == NumDiv(LagProducts(c, lag), LagProducts(c, 0))

autocorrelation(data, lag) == AutocorrelationOf(Centered(data, Mean(data)), lag)

\* estimateParameters(data): the model with phi and theta replaced
estimateParameters(m, data) ==
    LET diffed == difference(data, m.d)
    IN  [m EXCEPT !.phi = [i \in 1..m.p |-> autocorrelation(diffed, i)],
                  !.theta = [i \in 1..m.q |-> NumDiv(Frac(3, 10), NumOfInt(i))]]

MinTrain == 10

\* the length check with <= in place of <
ThrowsInsufficientInclusive(arg) == ~arg.given \/ Len(arg.data) <= MinTrain

\* train(timeSeries) of SimpleARIMA: [err, model]; err is "" on success.
\* arg.given is FALSE for a missing (undefined) argument.
ThrowsInsufficient(arg) == ~arg.given \/ Len(arg.data) < MinTrain

ARIMAtrain(m, arg) ==
    IF ThrowsInsufficient(arg)
    THEN [err |-> "InsufficientDataError", model |-> m]
    ELSE [err |-> "",
          model |-> estimateParameters(
                        [m EXCEPT !.hasData = TRUE, !.data = arg.data], arg.data)]

\* the value pushed to predictions for a forecast
Emitted(forecast) == NumMax0(forecast)

\* the value pushed to lastValues for a forecast
Buffered(forecast) == forecast

\* the AR sum of one step: phi[j] * lastValues[length - 1 - j], j < p
RECURSIVE ARsum(_, _, _)
ARsum(m, lastValues, j) ==
    IF j >= m.p \/ j >= Len(lastValues) THEN Zero
    ELSE NumAdd(NumMul(At(m.phi, j), At(lastValues, Len(lastValues) - 1 - j)),
                ARsum(m, lastValues, j + 1))

Trend(m) ==
    NumDiv(NumSub(At(m.data, Len(m.data) - 1), At(m.data, 0)),
           NumOfInt(Len(m.data)))

\* the forecast of step i: the AR component plus trend * (i + 1)
Forecast(m, i, lastValues) ==
    NumAdd(ARsum(m, lastValues, 0), NumMul(Trend(m), NumOfInt(i + 1)))

RECURSIVE PredictLoop(_, _, _, _, _)
RECURSIVE PredictPush(_, _, _, _, _, _)
\* the two pushes that end the loop body, then the next iteration
PredictPush(m, i, steps, lastValues, predictions, forecast) ==
    PredictLoop(m, i + 1, steps, Append(lastValues, Buffered(forecast)),
                Append(predictions, Emitted(forecast)))

PredictLoop(m, i, steps, lastValues, predictions) ==
    IF i >= steps THEN predictions
    ELSE PredictPush(m, i, steps, lastValues, predictions,
                     Forecast(m, i, lastValues))

\* the failure of predict on a model: this.data.slice on an undefined this.data
PredictError(m) == IF m.hasData THEN "" ELSE "TypeError"

\* predict(steps) of SimpleARIMA: [err, value]
ARIMApredict(m, steps) ==
    IF PredictError(m) # ""
    THEN [err |-> PredictError(m), value |-> <<>>]
    ELSE [err |-> "",
          value |-> PredictLoop(m, 0, steps,
                                SliceLast(m.data, Max(m.p, m.q)), <<>>)]

\* ------------------------------------------------------------------------
\* class SimpleSARIMA extends SimpleARIMA
\* ------------------------------------------------------------------------
NewSARIMA(p, d, q, P, D, Q, s) ==
    [NewARIMA(p, d, q) EXCEPT !.cls = "SARIMA", !.P = P, !.D = D, !.Q = Q, !.s = s]

detectSeasonality(m, data) ==
    IF Len(data) < m.s * 2 THEN FALSE
    ELSE LET seasonalCorr ==
                 NumSum([i \in 1..(Len(data) - m.s) |->
                             NumAbs(NumSub(data[i], data[i + m.s]))])
             avgDiff ==
                 NumDiv(NumSum([i \in 1..(Len(data) - 1) |->
                                    NumAbs(NumSub(data[i + 1], data[i]))]),
                        NumOfInt(Len(data) - 1))
         IN  NumLt(NumDiv(seasonalCorr, NumOfInt(Len(data) - m.s)),
                   NumMul(avgDiff, Frac(8, 10)))

seasonalDifference(m, data) ==
    [i \in 1..Max(0, Len(data) - m.s) |-> NumSub(data[i + m.s], data[i])]

\* the guard with one period in place of two
DelegatesBelowOnePeriod(m, arg) == ~arg.given \/ Len(arg.data) < m.s

\* the guard of SimpleSARIMA.train that hands the series to super.train
DelegatesToBase(m, arg) == ~arg.given \/ Len(arg.data) < m.s * 2

\* this.data = timeSeries; this.hasSeason = this.detectSeasonality(timeSeries)
WithSeason(m, data, season) ==
    [m EXCEPT !.hasData = TRUE, !.data = data,
              !.hasSeason = IF season THEN "true" ELSE "false"]

\* the if (this.hasSeason) ... else ... of SimpleSARIMA.train
SeasonalFit(m, data) ==
    IF m.hasSeason = "true"
    THEN estimateParameters(m, seasonalDifference(m, data))
    ELSE estimateParameters(m, data)

\* train(timeSeries) of SimpleSARIMA: [err, model]
SARIMAtrain(m, arg) ==
    IF DelegatesToBase(m, arg) THEN ARIMAtrain(m, arg)
    ELSE [err |-> "",
          model |-> SeasonalFit(
                        WithSeason(m, arg.data, detectSeasonality(m, arg.data)),
                        arg.data)]

\* the index of the training value used to rescale prediction i
SeasonalPos(m, i) == Len(m.data) - m.s + ((Len(m.data) + i) % m.s)

\* x || 0 for a number or undefined x
OrZero(x) == IF IsNaN(x) \/ (IsNum(x) /\ x.s = 0) THEN Zero ELSE x

\* predictions[i] *= (0.7 + 0.3 * seasonalFactor)
Rescaled(m, pred, i) ==
    LET historicalSeasonal == OrZero(At(m.data, SeasonalPos(m, i)))
        recentValue == At(m.data, Len(m.data) - 1)
        seasonalFactor == IF NumGt(recentValue, Zero)
                          THEN NumDiv(historicalSeasonal, recentValue)
                          ELSE NumOfInt(1)
    IN  NumMul(pred, NumAdd(Frac(7, 10), NumMul(Frac(3, 10), seasonalFactor)))

\* Math.max(0, Math.round(p * 100) / 100)
Round2(x) == NumMax0(NumDiv(NumRound(NumMul(x, NumOfInt(100))), NumOfInt(100)))

\* predictions returned as they are
FinishUnrounded(x) == x

\* the last line of SimpleSARIMA.predict, applied to one prediction
Finish(x) == Round2(x)

\* SimpleSARIMA.predict after super.predict(steps) has returned base
SeasonalPass(m, base) ==
    IF base.err # "" THEN base
    ELSE [err |-> "",
          value |-> [i \in 1..Len(base.value) |->
                        Finish(IF m.hasSeason = "true" /\ Len(m.data) >= m.s
                               THEN Rescaled(m, base.value[i], i - 1)
                               ELSE base.value[i])]]

\* predict(steps) of SimpleSARIMA: [err, value]
SARIMApredict(m, steps) == SeasonalPass(m, ARIMApredict(m, steps))

\* dynamic dispatch on the class of the object
Train(m, arg) == IF m.cls = "SARIMA" THEN SARIMAtrain(m, arg) ELSE ARIMAtrain(m, arg)
Predict(m, steps) ==
    IF m.cls = "SARIMA" THEN SARIMApredict(m, steps) ELSE ARIMApredict(m, steps)

\* ------------------------------------------------------------------------
\* class ForecastingEngine
\* ------------------------------------------------------------------------
Window == 7

movingAverage(data) ==
    IF Len(data) < Window THEN OrZero(At(data, Len(data) - 1))
    ELSE NumDiv(NumSum(SliceLast(data, Window)), NumOfInt(Window))

RECURSIVE SESfrom(_, _, _)
SESfrom(data, i, forecast) ==
    IF i >= Len(data) \/ IsNaN(forecast) THEN forecast
    ELSE SESfrom(data, i + 1,
                 NumAdd(NumMul(Frac(3, 10), At(data, i)),
                        NumMul(NumSub(NumOfInt(1), Frac(3, 10)), forecast)))

simpleExponentialSmoothing(data) ==
    IF Len(data) = 0 THEN Zero ELSE SESfrom(data, 1, At(data, 0))

\* Array(steps).fill(x)
Fill(steps, x) == [i \in 1..steps |-> x]

\* a fallback that forgets to repeat the forecast for every step
ArimaFallbackSingle(data, steps) == <<simpleExponentialSmoothing(data)>>

\* what the catch block of arimaForecast returns
ArimaFallback(data, steps) == Fill(steps, simpleExponentialSmoothing(data))

\* model.predict(steps) after model.train(data) has returned trained, inside
\* a try block: [err, value]
PredictTrained(trained, steps) ==
    IF trained.err # "" THEN [err |-> trained.err, value |-> <<>>]
    ELSE Predict(trained.model, steps)

\* the body of the try block of arimaForecast: [err, value]
ArimaTry(data, steps) ==
    PredictTrained(ARIMAtrain(NewARIMA(1, 1, 1), [given |-> TRUE, data |-> data]),
                   steps)

\* the outcome out of a try block as the value of the call: [err, by, value]
Returned(out, by) == [err |-> out.err, by |-> by, value |-> out.value]

\* try { out } catch (e) { return Array(steps).fill(SES(data)) }
ArimaCatch(out, data, steps) ==
    IF out.err # ""
    THEN [err |-> "", by |-> "ses", value |-> ArimaFallback(data, steps)]
    ELSE Returned(out, "arima")

\* arimaForecast without its try/catch
arimaForecastNoCatch(data, steps) == Returned(ArimaTry(data, steps), "arima")

\* arimaForecast(data, steps): [err, by, value]; err is the error that escapes
\* the call ("" if none), by names the code that produced value
arimaForecast(data, steps) == ArimaCatch(ArimaTry(data, steps), data, steps)

SeasonalPeriod == 7

\* the body of the try block of sarimaForecast: [err, value]
SarimaTry(data, steps) ==
    PredictTrained(SARIMAtrain(NewSARIMA(1, 1, 1, 1, 0, 1, SeasonalPeriod),
                               [given |-> TRUE, data |-> data]),
                   steps)

\* what the catch block of sarimaForecast returns
SarimaFallback(data, steps) == arimaForecast(data, steps)

\* try { out } catch (e) { return this.arimaForecast(data, steps) }
SarimaCatch(out, data, steps) ==
    IF out.err # "" THEN SarimaFallback(data, steps) ELSE Returned(out, "sarima")

\* sarimaForecast(data, steps): [err, by, value]
sarimaForecast(data, steps) == SarimaCatch(SarimaTry(data, steps), data, steps)

\* selectBestModel with the second threshold one too far
selectBestModelInclusive(data) ==
    IF Len(data) < 10 THEN "ma7"
    ELSE IF Len(data) <= 14 THEN "ses"
    ELSE IF Len(data) < 21 THEN "arima"
    ELSE "sarima"

selectBestModel(data) ==
    IF Len(data) < 10 THEN "ma7"
    ELSE IF Len(data) < 14 THEN "ses"
    ELSE IF Len(data) < 21 THEN "arima"
    ELSE "sarima"

\* ------------------------------------------------------------------------
\* Math.sqrt and the values built from it: q + sg * sqrt(rad), or NaN.
\* sg is 0 whenever rad is 0.
\* ------------------------------------------------------------------------
RealNaN == [nan |-> TRUE, q |-> Zero, sg |-> 0, rad |-> Zero]
MkReal(q, sg, rad) ==
    IF IsNaN(q) \/ IsNaN(rad) THEN RealNaN
    ELSE [nan |-> FALSE, q |-> q, sg |-> IF rad.s = 0 THEN 0 ELSE sg,
          rad |-> IF sg = 0 THEN Zero ELSE rad]
RealOfNum(x) == MkReal(x, 0, Zero)

\* Math.sqrt(x)
Sqrt(x) == IF IsNaN(x) \/ x.s < 0 THEN RealNaN ELSE MkReal(Zero, 1, x)

\* x * y where one factor is rational or both are pure square roots
RealMul(x, y) ==
    CASE x.nan \/ y.nan -> RealNaN
      [] ~x.nan /\ ~y.nan /\ x.sg = 0 ->
             MkReal(NumMul(x.q, y.q), x.q.s * y.sg, NumMul(NumMul(x.q, x.q), y.rad))
      [] ~x.nan /\ ~y.nan /\ x.sg # 0 /\ y.sg = 0 ->
             MkReal(NumMul(x.q, y.q), y.q.s * x.sg, NumMul(NumMul(y.q, y.q), x.rad))
      [] ~x.nan /\ ~y.nan /\ x.sg # 0 /\ y.sg # 0 /\ x.q.s = 0 /\ y.q.s = 0 ->
             MkReal(Zero, x.sg * y.sg, NumMul(x.rad, y.rad))

\* x + y where at most one of the two has a square-root part
RealAdd(x, y) ==
    CASE x.nan \/ y.nan -> RealNaN
      [] ~x.nan /\ ~y.nan /\ y.sg = 0 -> MkReal(NumAdd(x.q, y.q), x.sg, x.rad)
      [] ~x.nan /\ ~y.nan /\ y.sg # 0 /\ x.sg = 0 ->
             MkReal(NumAdd(x.q, y.q), y.sg, y.rad)

RealSub(x, y) ==
    RealAdd(x, IF y.nan THEN y ELSE MkReal(NumNeg(y.q), -y.sg, y.rad))

\* the sign of D = u * sqrt(ru) + v * sqrt(rv), u and v in {-1, 0, 1}
SurdSign(u, ru, v, rv) ==
    IF u = 0 THEN v ELSE IF v = 0 THEN u
    ELSE IF u = v THEN u ELSE u * NumCmp(ru, rv)

\* the sign of t - 2 * uv * sqrt(pr / 4), pr > 0 unless uv = 0
SignAgainstRoot(uv, t, pr) ==
    IF uv = 0 THEN t.s
    ELSE IF uv * t.s <= 0 THEN -uv
    ELSE uv * NumCmp(NumMul(t, t), pr)

\* the sign of c^2 - D^2, where D^2 = ru + rv + 2 * u * v * sqrt(ru * rv)
AbsCmp(c, u, ru, v, rv) ==
    SignAgainstRoot(u * v,
                    NumSub(NumMul(c, c),
                           NumAdd(IF u = 0 THEN Zero ELSE ru,
                                  IF v = 0 THEN Zero ELSE rv)),
                    NumMul(NumOfInt(4), NumMul(ru, rv)))

\* the sign of c + D from the signs sc of c, sD of D and cmpAbs of |c| - |D|
SignPick(sc, sD, cmpAbs) ==
    IF sc = 0 THEN sD
    ELSE IF sD = 0 \/ sD = sc THEN sc
    ELSE IF cmpAbs > 0 THEN sc
    ELSE IF cmpAbs < 0 THEN sD
    ELSE 0

\* the sign of c + u * sqrt(ru) + v * sqrt(rv), u and v in {-1, 0, 1}
SignSum(c, u, ru, v, rv) ==
    SignPick(c.s, SurdSign(u, ru, v, rv), AbsCmp(c, u, ru, v, rv))

\* -1, 0, 1 for two values that are not NaN
RealCmp(x, y) == SignSum(NumSub(x.q, y.q), x.sg, x.rad, -y.sg, y.rad)
RealLe(x, y) == ~x.nan /\ ~y.nan /\ RealCmp(x, y) <= 0
SameReal(x, y) == (x.nan /\ y.nan) \/ (~x.nan /\ ~y.nan /\ RealCmp(x, y) = 0)

\* Math.max(0, x): NaN if x is NaN
RealMax0(x) ==
    IF x.nan THEN x
    ELSE IF RealCmp(x, RealOfNum(Zero)) < 0 THEN RealOfNum(Zero) ELSE x

\* the sum of Math.pow(val - mean, 2) over data, divided by data.length
Variance(data, mean) ==
    NumDiv(LagProducts(Centered(data, mean), 0), NumOfInt(Len(data)))

calculateStdDev(data) == Sqrt(Variance(data, Mean(data)))

\* 1.96 * stdDev * Math.sqrt(i + 1)
HalfWidth(stdDev, i) ==
    RealMul(RealMul(RealOfNum(Frac(196, 100)), stdDev), Sqrt(NumOfInt(i + 1)))

Lower(pred, h) == RealMax0(RealSub(RealOfNum(pred), h))
Upper(pred, h) == RealAdd(RealOfNum(pred), h)

\* { forecast: pred, lower: ..., upper: ... } for the half-width h
IntervalOf(pred, h) ==
    [forecast |-> pred, lower |-> Lower(pred, h), upper |-> Upper(pred, h)]

\* one element of confidenceIntervals, for the 0-based step i
Interval(pred, stdDev, i) == IntervalOf(pred, HalfWidth(stdDev, i))

Hints == {"auto", "ma7", "ses", "arima", "sarima"}

\* model.toUpperCase()
ToUpperCase(model) ==
    CASE model = "ma7" -> "MA7" [] model = "ses" -> "SES"
      [] model = "arima" -> "ARIMA" [] model = "sarima" -> "SARIMA"

\* the strategy name after `if (model === 'auto') model = selectBestModel(data)`
Resolve(data, hint) == IF hint = "auto" THEN selectBestModel(data) ELSE hint

\* the if/else chain of forecastWithConfidence: [err, by, value]
Dispatch(data, steps, model) ==
    IF model = "arima" THEN arimaForecast(data, steps)
    ELSE IF model = "sarima" THEN sarimaForecast(data, steps)
    ELSE IF model = "ses"
    THEN [err |-> "", by |-> "ses",
          value |-> Fill(steps, simpleExponentialSmoothing(data))]
    ELSE [err |-> "", by |-> "ma7", value |-> Fill(steps, movingAverage(data))]

\* forecastWithConfidence(data, steps, model); err is the error that escapes
\* the call ("" if none) and by is a ghost field naming the strategy whose code
\* produced the predictions
\* forecastWithConfidence after the strategy has returned out
Envelope(model, out, stdDev) ==
    IF out.err # ""
    THEN [err |-> out.err, model |-> "", by |-> "", predictions |-> <<>>,
          confidenceIntervals |-> <<>>]
    ELSE [err |-> "",
          model |-> ToUpperCase(model),
          by |-> out.by,
          predictions |-> out.value,
          confidenceIntervals |->
              [i \in 1..Len(out.value) |-> Interval(out.value[i], stdDev, i - 1)]]

forecastWithConfidence(data, steps, hint) ==
    Envelope(Resolve(data, hint), Dispatch(data, steps, Resolve(data, hint)),
             calculateStdDev(data))

\* ------------------------------------------------------------------------
\* The callers: the sales histories they hold and the calls they make
\* ------------------------------------------------------------------------
MaxLen == 22
MaxSteps == 3

\* day i (0-based) of a sales history <<c, m, h, a, w>>:
\* a level c, a slope m per day, a step h every second day and a peak a on
\* the last day of every w days
Sale(pat, i) ==
    pat[1] + pat[2] * i + pat[3] * (i \div 2)
    + (IF i % pat[5] = pat[5] - 1 THEN pat[4] ELSE 0)

Patterns ==
    { <<5, 0, 0, 0, 2>>,     \* constant
      <<0, 0, 0, 0, 2>>,     \* no sales at all
      <<0, 1, 0, 0, 2>>,     \* exactly linear
      <<10, 0, 1, 2, 2>>,    \* 10, 12, 11, 13, 12, 14, ...
      <<2, 0, 0, 6, 7>>,     \* a weekly peak, exactly periodic
      <<0, 0, 0, 4, 7>>,     \* sales on one day of the week only
      <<30, -1, 0, 3, 2>>,   \* declining, higher on every second day
      <<1, 0, 0, 3, 3>>,     \* a peak every third day
      <<3, 0, 1, 20, 7>> }   \* a weekly peak on a rising level

History(pat, n) == [i \in 1..n |-> NumOfInt(Sale(pat, i - 1))]

Inputs == { History(pat, n) : pat \in Patterns, n \in 0..MaxLen }

Orders == { <<1, 1, 1>>, <<2, 0, 2>> }
Periods == { 3, 7 }

VARIABLES
    series,   \* the time series the caller holds
    model,    \* the model object the caller holds, cls = "none" before any
    ret       \* the outcome of the call that has just returned, op = "none" if taken

callerVars == <<series, model, ret>>

\* ------------------------------------------------------------------------
\* The service worker: cache storage and requests
\* ------------------------------------------------------------------------
CACHE_NAME == "tindatech-v2"

ASSETS ==
    << "/", "/index.html", "/manifest.json", "/theme.css",
       "/tindatech_phase1_complete.js", "/icons/icon-192.png",
       "/icons/icon-512.png", "/icons/maskable-192.png",
       "/icons/maskable-512.png" >>

\* self.location.origin
SelfOrigin == "https://tindatech.example"

\* a cache name of an earlier version of the worker
OtherCache == "tindatech-v1"

MaxFlight == 2

Url(origin, path) == [origin |-> origin, path |-> path]

\* the URLs cache.addAll(ASSETS) requests
AssetUrls == { Url(SelfOrigin, ASSETS[i]) : i \in 1..Len(ASSETS) }

IndexUrl == Url(SelfOrigin, "/index.html")

Request(url, method, mode) == [url |-> url, method |-> method, mode |-> mode]

\* the requests that reach the worker: a GET for an asset, for a same-origin
\* URL that is no asset and for a URL of another origin, a navigation to the
\* page and a POST to the worker's own origin
Requests ==
    { Request(u, "GET", "cors") :
          u \in { IndexUrl, Url(SelfOrigin, "/api/sales"),
                  Url("https://cdn.example", "/lib.js") } }
    \cup { Request(IndexUrl, "GET", "navigate"), 
           Request(Url(SelfOrigin, "/api/sales"), "POST", "cors") }

\* the response to a request for url with the given method; ok is res.ok
Response(url, method, ok) == [url |-> url, method |-> method, ok |-> ok]

\* undefined where a response is expected
NoResponse == Response(Url("", ""), "", FALSE)

Entry(key, resp) == [key |-> key, resp |-> resp]

\* caches.keys()
CacheNames(cs) == { c.name : c \in cs }

\* the entries of the cache called name, none if there is no such cache
EntriesOf(cs, name) == UNION { c.entries : c \in { x \in cs : x.name = name } }

\* caches.open(name): the cache is created when it does not exist
Opened(cs, name) ==
    IF name \in CacheNames(cs) THEN cs
    ELSE cs \cup { [name |-> name, entries |-> {}] }

\* the cache storage after the entries of the cache called name became es
WithEntries(cs, name, es) ==
    { c \in cs : c.name # name } \cup { [name |-> name, entries |-> es] }

\* cache.put(key, resp) on the cache called name: an entry with the same key
\* is replaced
WithPut(cs, name, key, resp) ==
    WithEntries(cs, name,
                { e \in EntriesOf(cs, name) : e.key # key }
                \cup { Entry(key, resp) })

\* the entries of one cache that match a request: requests that are not GET
\* match nothing
MatchIn(cs, name, req) ==
    IF req.method # "GET" THEN {}
    ELSE { e \in EntriesOf(cs, name) : e.key = req.url }

\* what a search that found the entries es resolves to
Found(es) == [found |-> es # {}, resp |-> (CHOOSE e \in es : TRUE).resp]

\* caches.match(req): the caches are searched in the order of their creation
Match(cs, req) ==
    IF MatchIn(cs, OtherCache, req) # {} THEN Found(MatchIn(cs, OtherCache, req))
    ELSE IF MatchIn(cs, CACHE_NAME, req) # {} THEN Found(MatchIn(cs, CACHE_NAME, req))
    ELSE [found |-> FALSE, resp |-> NoResponse]

\* any response, whatever its status, is stored for a same-origin URL
CacheableAnyStatus(req, res) == req.url.origin = SelfOrigin

\* res.ok && new URL(req.url).origin === self.location.origin
Cacheable(req, res) == res.ok /\ req.url.origin = SelfOrigin

\* what an earlier version of the worker may have left in its cache
OtherContents ==
    { { Entry(IndexUrl, Response(IndexUrl, "GET", TRUE)) },
      { Entry(Url("https://cdn.example", "/lib.js"),
              Response(Url("https://cdn.example", "/lib.js"), "GET", FALSE)) } }

\* one run of the fetch listener
Handler(req, stage, from, hit, net, resp) ==
    [req |-> req, stage |-> stage, from |-> from, hit |-> hit, net |-> net,
     resp |-> resp]

VARIABLES
    caches,      \* the cache storage: a set of [name, entries]
    flight,      \* the runs of the fetch listener that have not settled
    puts,        \* the cache.put calls scheduled and not yet done
    installing,  \* cache.addAll(ASSETS) has been called and has not settled
    doomed       \* the cache names activate has read and still has to look at

workerVars == <<caches, flight, puts, installing, doomed>>

vars == <<series, model, ret, caches, flight, puts, installing, doomed>>


NoModel == [NewARIMA(0, 0, 0) EXCEPT !.cls = "none"]

NoRet ==
    [op |-> "none", steps |-> 0, hint |-> "", given |-> TRUE, err |-> "",
     self |-> FALSE, value |-> <<>>, tag |-> "", by |-> "", intervals |-> <<>>]

Init ==
    /\ series \in Inputs
    /\ model = NoModel
    /\ ret = NoRet
    /\ caches = {}
    /\ flight = {}
    /\ puts = {}
    /\ installing = FALSE
    /\ doomed = {}

\* new SimpleARIMA(p, d, q)
ConstructARIMA(o) ==
    /\ ret.op = "none"
    /\ model' = NewARIMA(o[1], o[2], o[3])
    /\ UNCHANGED <<series, ret>>
    /\ UNCHANGED workerVars

\* new SimpleSARIMA(p, d, q, 1, 0, 1, s)
ConstructSARIMA(o, s) ==
    /\ ret.op = "none"
    /\ model' = NewSARIMA(o[1], o[2], o[3], 1, 0, 1, s)
    /\ UNCHANGED <<series, ret>>
    /\ UNCHANGED workerVars

\* the model and the returned value after train has ended as r
Trained(r, given) ==
    /\ model' = r.model
    /\ ret' = [NoRet EXCEPT !.op = "train", !.given = given,
                            !.err = r.err, !.self = (r.err = "")]

\* the returned value after predict has ended as r
Predicted(r, steps) ==
    ret' = [NoRet EXCEPT !.op = "predict", !.steps = steps,
                         !.err = r.err, !.value = r.value]

\* the returned value after forecastWithConfidence has ended as r
Forecasted(r, steps, hint) ==
    ret' = [NoRet EXCEPT !.op = "forecast", !.steps = steps, !.hint = hint,
                         !.err = r.err, !.tag = r.model, !.by = r.by,
                         !.value = r.predictions,
                         !.intervals = r.confidenceIntervals]

\* model.train(series), or model.train() when given is FALSE
TrainCall(given) ==
    /\ ret.op = "none"
    /\ model.cls # "none"
    /\ Trained(Train(model, [given |-> given, data |-> series]), given)
    /\ UNCHANGED series
    /\ UNCHANGED workerVars

\* model.predict(steps)
PredictCall(steps) ==
    /\ ret.op = "none"
    /\ model.cls # "none"
    /\ Predicted(Predict(model, steps), steps)
    /\ UNCHANGED <<series, model>>
    /\ UNCHANGED workerVars

\* engine.forecastWithConfidence(series, steps, hint)
ForecastCall(steps, hint) ==
    /\ ret.op = "none"
    /\ Forecasted(forecastWithConfidence(series, steps, hint), steps, hint)
    /\ UNCHANGED <<series, model>>
    /\ UNCHANGED workerVars

\* the caller takes the returned value
Return ==
    /\ ret.op # "none"
    /\ ret' = NoRet
    /\ UNCHANGED <<series, model>>
    /\ UNCHANGED workerVars

\* direct use of the model classes
NextModel ==
    \/ \E o \in Orders : ConstructARIMA(o)
    \/ \E o \in Orders, s \in Periods : ConstructSARIMA(o, s)
    \/ \E given \in BOOLEAN : TrainCall(given)
    \/ \E steps \in 1..MaxSteps : PredictCall(steps)
    \/ Return

\* use of the engine
NextEngine ==
    \/ \E steps \in 1..MaxSteps, hint \in Hints : ForecastCall(steps, hint)
    \/ Return

\* a request reaches the fetch listener; one that is not a GET is left to
\* the browser at once
FetchEvent(req) ==
    /\ Cardinality(flight) < MaxFlight
    /\ flight' = flight \cup
           { IF req.method # "GET"
             THEN Handler(req, "done", "browser", FALSE, FALSE, NoResponse)
             ELSE Handler(req, "match", "", FALSE, FALSE, NoResponse) }
    /\ UNCHANGED <<caches, puts, installing, doomed>>
    /\ UNCHANGED callerVars

\* caches.match(req) resolves: a cached response is the answer, otherwise
\* fetch(req) is called
Matched(h) ==
    /\ h.stage = "match"
    /\ flight' = (flight \ {h}) \cup
           { IF Match(caches, h.req).found
             THEN [h EXCEPT !.stage = "done", !.from = "cache", !.hit = TRUE,
                            !.resp = Match(caches, h.req).resp]
             ELSE [h EXCEPT !.stage = "fetch"] }
    /\ UNCHANGED <<caches, puts, installing, doomed>>
    /\ UNCHANGED callerVars

\* fetch(req) resolves to a response, which is the answer
NetworkReply(h, ok) ==
    /\ h.stage = "fetch"
    /\ flight' = (flight \ {h}) \cup
           { [h EXCEPT !.stage = "done", !.from = "network", !.net = TRUE,
                       !.resp = Response(h.req.url, h.req.method, ok)] }
    /\ puts' = IF Cacheable(h.req, Response(h.req.url, h.req.method, ok))
               THEN puts \cup { Entry(h.req.url,
                                      Response(h.req.url, h.req.method, ok)) }
               ELSE puts
    /\ UNCHANGED <<caches, installing, doomed>>
    /\ UNCHANGED callerVars

\* fetch(req) rejects: a navigation asks the caches for /index.html, any
\* other request gets no answer
NetworkFail(h) ==
    /\ h.stage = "fetch"
    /\ flight' = (flight \ {h}) \cup
           { IF h.req.mode = "navigate"
             THEN [h EXCEPT !.stage = "fallback", !.net = TRUE]
             ELSE [h EXCEPT !.stage = "done", !.from = "none", !.net = TRUE] }
    /\ UNCHANGED <<caches, puts, installing, doomed>>
    /\ UNCHANGED callerVars

\* caches.match('/index.html') resolves in the catch handler
FallbackMatched(h) ==
    /\ h.stage = "fallback"
    /\ flight' = (flight \ {h}) \cup
           { [h EXCEPT !.stage = "done",
                       !.from = IF Match(caches, Request(IndexUrl, "GET", "cors")).found
                                THEN "cache" ELSE "none",
                       !.resp = Match(caches, Request(IndexUrl, "GET", "cors")).resp] }
    /\ UNCHANGED <<caches, puts, installing, doomed>>
    /\ UNCHANGED callerVars

\* caches.open(CACHE_NAME).then((cache) => cache.put(req, resClone))
CachePut(e) ==
    /\ e \in puts
    /\ caches' = WithPut(Opened(caches, CACHE_NAME), CACHE_NAME, e.key, e.resp)
    /\ puts' = puts \ {e}
    /\ UNCHANGED <<flight, installing, doomed>>
    /\ UNCHANGED callerVars

\* the answer of a run of the listener has been delivered
Settle(h) ==
    /\ h.stage = "done"
    /\ flight' = flight \ {h}
    /\ UNCHANGED <<caches, puts, installing, doomed>>
    /\ UNCHANGED callerVars

\* the install event: caches.open(CACHE_NAME) resolves and addAll is called
InstallEvent ==
    /\ ~installing
    /\ installing' = TRUE
    /\ caches' = Opened(caches, CACHE_NAME)
    /\ UNCHANGED <<flight, puts, doomed>>
    /\ UNCHANGED callerVars

\* cache.addAll(ASSETS) settles: every asset is stored if every one of them
\* was fetched with an ok response, nothing is stored otherwise
AddAll(ok) ==
    /\ installing
    /\ installing' = FALSE
    /\ caches' =
           IF ok
           THEN WithEntries(caches, CACHE_NAME,
                            { e \in EntriesOf(caches, CACHE_NAME) :
                                  e.key \notin AssetUrls }
                            \cup { Entry(u, Response(u, "GET", TRUE)) :
                                       u \in AssetUrls })
           ELSE caches
    /\ UNCHANGED <<flight, puts, doomed>>
    /\ UNCHANGED callerVars

\* the activate event: caches.keys() resolves
ActivateEvent ==
    /\ doomed = {}
    /\ doomed' = CacheNames(caches)
    /\ UNCHANGED <<caches, flight, puts, installing>>
    /\ UNCHANGED callerVars

\* k !== CACHE_NAME ? caches.delete(k) : undefined, for one of the keys
VisitKey(k) ==
    /\ k \in doomed
    /\ doomed' = doomed \ {k}
    /\ caches' = IF k # CACHE_NAME THEN { c \in caches : c.name # k } ELSE caches
    /\ UNCHANGED <<flight, puts, installing>>
    /\ UNCHANGED callerVars

\* the worker starts with whatever an earlier version left in the storage
InitWorker ==
    /\ series = <<>>
    /\ model = NoModel
    /\ ret = NoRet
    /\ caches \in { {} } \cup
                  { { [name |-> OtherCache, entries |-> es] } : es \in OtherContents }
    /\ flight = {}
    /\ puts = {}
    /\ installing = FALSE
    /\ doomed = {}

\* the events of the service worker and the steps they start
NextWorker ==
    \/ InstallEvent
    \/ \E ok \in BOOLEAN : AddAll(ok)
    \/ ActivateEvent
    \/ \E k \in doomed : VisitKey(k)
    \/ \E req \in Requests : FetchEvent(req)
    \/ \E h \in flight : Matched(h)
    \/ \E h \in flight, ok \in BOOLEAN : NetworkReply(h, ok)
    \/ \E h \in flight : NetworkFail(h)
    \/ \E h \in flight : FallbackMatched(h)
    \/ \E e \in puts : CachePut(e)
    \/ \E h \in flight : Settle(h)

Next == NextModel \/ NextEngine \/ NextWorker

Spec == Init /\ [][Next]_vars
SpecWorker == InitWorker /\ [][NextWorker]_vars
SpecModel == Init /\ [][NextModel]_vars
SpecEngine == Init /\ [][NextEngine]_vars

\* the histories a caller that keeps one model across products trains it on
RetrainInputs ==
    { History(pat, n) : pat \in { <<10, 0, 1, 2, 2>>, <<3, 0, 1, 20, 7>>,
                                  <<1, 0, 0, 3, 3>> },
                        n \in {9, 10, 13, 14, 15, 21} \cup {MaxLen} }

\* the caller turns to the sales history of another product
Supply(b) ==
    /\ ret.op = "none"
    /\ b # series
    /\ series' = b
    /\ UNCHANGED <<model, ret>>
    /\ UNCHANGED workerVars

InitRetrain ==
    /\ series \in RetrainInputs
    /\ model = NoModel
    /\ ret = NoRet
    /\ caches = {}
    /\ flight = {}
    /\ puts = {}
    /\ installing = FALSE
    /\ doomed = {}

\* one model object trained again and again, on one history after another
NextRetrain ==
    \/ \E b \in RetrainInputs : Supply(b)
    \/ NextModel

SpecRetrain == InitRetrain /\ [][NextRetrain]_vars

\* ------------------------------------------------------------------------
\* Properties
\* ------------------------------------------------------------------------
SameSeq(a, b) == Len(a) = Len(b) /\ \A i \in 1..Len(a) : SameNum(a[i], b[i])

ExpectedModel(n) ==
    IF n <= 9 THEN "ma7"
    ELSE IF n <= 13 THEN "ses"
    ELSE IF n <= 20 THEN "arima"
    ELSE "sarima"

\* C1: selectBestModel is a function of the series length alone: ma7 for 0..9,
\* ses for 10..13, arima for 14..20, sarima from 21 on; and a forecast with
\* hint auto is the forecast with that strategy as the hint.
C1_SelectByLength ==
    /\ selectBestModel(series) = ExpectedModel(Len(series))
    /\ (ret.op = "forecast" /\ ret.hint = "auto") =>
           LET e == forecastWithConfidence(series, ret.steps,
                                           ExpectedModel(Len(series)))
           IN  /\ ret.tag = e.model
               /\ ret.by = e.by
               /\ SameSeq(ret.value, e.predictions)

C1_Witness ==
    /\ ret.op = "forecast" /\ ret.hint = "auto"
    /\ Len(series) = 21 /\ ret.tag = "SARIMA" /\ ret.by = "sarima"

\* C2: a forecast has exactly `steps` predictions and `steps` intervals, and
\* the forecast field of interval i is prediction i, for every series, steps
\* and hint.
C2_ParallelSequences ==
    ret.op = "forecast" =>
        /\ Len(ret.value) = ret.steps
        /\ Len(ret.intervals) = ret.steps
        /\ \A i \in 1..Len(ret.intervals) :
               i <= Len(ret.value)
               /\ SameNum(ret.intervals[i].forecast, ret.value[i])

C2_Witness ==
    /\ ret.op = "forecast" /\ ret.hint = "sarima"
    /\ Len(series) = 0 /\ ret.steps = MaxSteps /\ Len(ret.intervals) = MaxSteps

\* C3: predict on a base model (1,1,1) trained on a series of non-negative
\* numbers returns `steps` values, each a number >= 0.
C3_BasePredictNonNegative ==
    (/\ ret.op = "predict" /\ ret.err = ""
     /\ model.cls = "ARIMA" /\ <<model.p, model.d, model.q>> = <<1, 1, 1>>) =>
        /\ Len(ret.value) = ret.steps
        /\ \A i \in 1..Len(ret.value) :
               IsNum(ret.value[i]) /\ NumLe(Zero, ret.value[i])

\* C4: base-model train fails with InsufficientDataError exactly for a missing
\* series and for series of 0..9 points; otherwise it returns the model,
\* trained on the series.
C4_TrainThreshold ==
    (ret.op = "train" /\ model.cls = "ARIMA") =>
        IF ~ret.given \/ Len(series) <= 9
        THEN ret.err = "InsufficientDataError" /\ ~ret.self
        ELSE ret.err = "" /\ ret.self /\ model.hasData /\ model.data = series

C4_Witness ==
    /\ ret.op = "train" /\ model.cls = "ARIMA" /\ ret.given
    /\ Len(series) = 9 /\ ret.err = "InsufficientDataError"

\* C5: no error escapes forecastWithConfidence; when the base model fails
\* under hint arima the predictions are `steps` copies of the SES forecast,
\* and when the seasonal model fails under hint sarima they are what the
\* arima path returns.
C5_EngineNeverThrows ==
    ret.op = "forecast" =>
        /\ ret.err = ""
        /\ (ret.hint = "arima" /\ ArimaTry(series, ret.steps).err # "") =>
               SameSeq(ret.value,
                       Fill(ret.steps, simpleExponentialSmoothing(series)))
        /\ (ret.hint = "sarima" /\ SarimaTry(series, ret.steps).err # "") =>
               SameSeq(ret.value, arimaForecast(series, ret.steps).value)

C5_Witness ==
    /\ ret.op = "forecast" /\ ret.hint = "sarima" /\ ret.err = ""
    /\ Len(series) = 9 /\ ret.steps = 2 /\ ret.by = "ses"
    /\ ~SameNum(ret.value[1], movingAverage(series))

\* C6: every interval of a forecast satisfies 0 <= lower <= forecast <= upper.
C6_IntervalOrdered ==
    ret.op = "forecast" =>
        \A i \in 1..Len(ret.intervals) :
            LET ci == ret.intervals[i]
            IN  /\ RealLe(RealOfNum(Zero), ci.lower)
                /\ RealLe(ci.lower, RealOfNum(ci.forecast))
                /\ RealLe(RealOfNum(ci.forecast), ci.upper)

\* upper - lower of an interval as returned
Width(ci) ==
    IF ci.lower.nan \/ ci.upper.nan THEN RealNaN
    ELSE IF ci.lower.sg = 0 THEN RealSub(ci.upper, ci.lower)
    ELSE MkReal(NumSub(ci.upper.q, ci.lower.q), 1,
                NumMul(NumOfInt(4), ci.upper.rad))

\* C7: within one forecast, upper - lower (lower as returned, after the clamp
\* at 0) never decreases with the step index.  Stated for the intervals whose
\* bounds are numbers.
C7_WidthNonDecreasing ==
    ret.op = "forecast" =>
        \A i \in 1..Len(ret.intervals), j \in 1..Len(ret.intervals) :
            (i < j /\ ~Width(ret.intervals[i]).nan /\ ~Width(ret.intervals[j]).nan)
                => RealLe(Width(ret.intervals[i]), Width(ret.intervals[j]))

\* C8: predict on a model that was never successfully trained fails with
\* NotTrainedError and returns no predictions.
C8_PredictBeforeTrain ==
    (ret.op = "predict" /\ ~model.hasData) =>
        ret.err = "NotTrainedError" /\ ret.value = <<>>

\* the base model with the orders of the model held, trained on the series
BaseTwin == ARIMAtrain(NewARIMA(model.p, model.d, model.q),
                       [given |-> TRUE, data |-> series]).model

\* the model held is a seasonal model trained on 10 <= n < 2s points
ShortForSeason ==
    /\ model.cls = "SARIMA" /\ model.hasData
    /\ Len(model.data) >= 10 /\ Len(model.data) < 2 * model.s

\* C9 as stated: on 10 <= n < 2s points the seasonal model's predict returns
\* exactly the sequence the base model's predict returns.
C9_PredictAsBase ==
    (ret.op = "predict" /\ ShortForSeason) =>
        LET twin == BaseTwin
        IN  twin.hasData /\ SameSeq(ret.value, ARIMApredict(twin, ret.steps).value)

\* C9: on 10 <= n < 2s points the seasonal model ends training with the phi,
\* theta and stored series of the base model with the same orders, and its
\* predict returns the base model's predictions, each rounded to two decimals.
C9_PredictAsBaseRounded ==
    ShortForSeason =>
        LET twin == BaseTwin
            base == ARIMApredict(twin, ret.steps)
        IN  /\ twin.hasData
            /\ SameSeq(model.phi, twin.phi)
            /\ SameSeq(model.theta, twin.theta)
            /\ SameSeq(model.data, twin.data)
            /\ ret.op = "predict" =>
                   /\ ret.err = "" /\ base.err = ""
                   /\ SameSeq(ret.value,
                              [i \in 1..ret.steps |-> Round2(base.value[i])])

C9_Witness ==
    /\ ret.op = "predict" /\ ShortForSeason
    /\ LET twin == BaseTwin
           base == ARIMApredict(twin, ret.steps)
       IN  /\ twin.hasData /\ base.err = ""
           /\ \E i \in 1..Len(ret.value) : ~SameNum(ret.value[i], base.value[i])

\* the model held is a seasonal model just asked to train on fewer than 2s points
TrainedBelowTwoPeriods ==
    /\ ret.op = "train" /\ model.cls = "SARIMA"
    /\ ret.given /\ Len(series) < 2 * model.s

\* C10 as stated: seasonal train on fewer than 2s points never raises.
C10_ShortTrainNeverRaises == TrainedBelowTwoPeriods => ret.err = ""

\* C10: seasonal train on fewer than 2s points is the base model's train: it
\* raises InsufficientDataError exactly when the series has fewer than 10
\* points, and otherwise returns the model trained as the base model, with no
\* seasonality flag.
C10_ShortTrainIsBaseTrain ==
    TrainedBelowTwoPeriods =>
        IF Len(series) < 10
        THEN ret.err = "InsufficientDataError" /\ ~ret.self
        ELSE /\ ret.err = "" /\ ret.self
             /\ model.hasData /\ model.data = series
             /\ model.hasSeason = "undefined"
             /\ SameSeq(model.phi, BaseTwin.phi)

C10_Witness ==
    /\ TrainedBelowTwoPeriods /\ model.s = 7
    /\ Len(series) = 9 /\ ret.err = "InsufficientDataError"

\* the sum of squared deviations of the differenced training series
FitVariation(m) ==
    LagProducts(Centered(difference(m.data, m.d),
                         Mean(difference(m.data, m.d))), 0)

\* the model held is a base model trained on a series whose differenced
\* series has zero variance
ZeroVarianceFit ==
    /\ model.cls = "ARIMA" /\ model.hasData
    /\ IsNum(FitVariation(model)) /\ FitVariation(model).s = 0

\* ((last - first) / N) * i clamped at 0, for the 1-based step i
TrendTerm(m, i) == NumMax0(NumMul(Trend(m), NumOfInt(i)))

\* C11: when the differenced training series has zero variance, predict on
\* the base model raises no error and every prediction is a defined number,
\* equal to the trend term ((last - first) / N) * (i + 1) clamped at 0.
C11_ZeroVarianceTrendOnly ==
    (ret.op = "predict" /\ ZeroVarianceFit) =>
        /\ ret.err = ""
        /\ Len(ret.value) = ret.steps
        /\ \A i \in 1..Len(ret.value) :
               IsNum(ret.value[i]) /\ NumEq(ret.value[i], TrendTerm(model, i))

\* the constant series of ten 5s
TenFives == [i \in 1..10 |-> NumOfInt(5)]

\* C12: for the series of ten 5s and steps = 3, under every hint, the three
\* predictions all equal 5 and every interval has lower = forecast = upper.
C12_ConstantSeriesCollapses ==
    (ret.op = "forecast" /\ series = TenFives /\ ret.steps = 3) =>
        /\ Len(ret.value) = 3
        /\ \A i \in 1..Len(ret.value) : NumEq(ret.value[i], NumOfInt(5))
        /\ \A i \in 1..Len(ret.intervals) :
               /\ ~ret.intervals[i].lower.nan
               /\ SameReal(ret.intervals[i].lower,
                           RealOfNum(ret.intervals[i].forecast))
               /\ SameReal(ret.intervals[i].upper,
                           RealOfNum(ret.intervals[i].forecast))

\* the predict loop with the emitted (clamped) value pushed to the buffer
RECURSIVE ClampedLoop(_, _, _, _, _)
ClampedLoop(m, i, steps, lastValues, predictions) ==
    IF i >= steps THEN predictions
    ELSE ClampedLoop(m, i + 1, steps,
                     Append(lastValues, Emitted(Forecast(m, i, lastValues))),
                     Append(predictions, Emitted(Forecast(m, i, lastValues))))

\* C13: in base-model predict the value appended to the working buffer after
\* a step is the forecast clamped at 0, so the predictions are those of the
\* loop whose later autoregressive terms use the emitted predictions.
C13_BufferHoldsEmitted ==
    (ret.op = "predict" /\ ret.err = "" /\ model.cls = "ARIMA") =>
        SameSeq(ret.value,
                ClampedLoop(model, 0, ret.steps,
                            SliceLast(model.data, Max(model.p, model.q)), <<>>))

\* the model held is a seasonal model trained on n >= 2s points with
\* seasonality detected
SeasonDetected ==
    /\ model.cls = "SARIMA" /\ model.hasData
    /\ model.hasSeason = "true" /\ Len(model.data) >= 2 * model.s

\* C14: in seasonal predict with seasonality detected on n >= 2s points, the
\* historical value that rescales prediction i is the element of the last
\* period (index in n-s..n-1) whose index is congruent to n + i modulo s.
C14_SeasonalIndexAligned ==
    (ret.op = "predict" /\ ret.err = "" /\ SeasonDetected) =>
        \A i \in 0..(ret.steps - 1) :
            /\ SeasonalPos(model, i) >= Len(model.data) - model.s
            /\ SeasonalPos(model, i) <= Len(model.data) - 1
            /\ SeasonalPos(model, i) % model.s = (Len(model.data) + i) % model.s

\* C15: the tag of a forecast names the strategy that produced the
\* predictions: under tag ARIMA they are the base model's predict on the
\* series, under tag SARIMA the seasonal model's predict, for every series
\* length and hint.
C15_TagNamesProducer ==
    ret.op = "forecast" =>
        /\ ret.tag = "ARIMA" =>
               /\ ret.by = "arima"
               /\ ArimaTry(series, ret.steps).err = ""
               /\ SameSeq(ret.value, ArimaTry(series, ret.steps).value)
        /\ ret.tag = "SARIMA" =>
               /\ ret.by = "sarima"
               /\ SarimaTry(series, ret.steps).err = ""
               /\ SameSeq(ret.value, SarimaTry(series, ret.steps).value)

\* a newly constructed seasonal model with the orders of the model held,
\* trained only on the series the model held was last trained on
FreshTwin ==
    SARIMAtrain(NewSARIMA(model.p, model.d, model.q, model.P, model.D, model.Q,
                          model.s),
                [given |-> TRUE, data |-> model.data]).model

\* C16: after any sequence of successful train calls ending with train(B),
\* predict on a seasonal model returns what a newly constructed seasonal model
\* with the same orders, trained only on B, returns.
C16_RetrainReplacesState ==
    (ret.op = "predict" /\ model.cls = "SARIMA" /\ model.hasData) =>
        LET twin == FreshTwin
        IN  /\ ret.err = ""
            /\ twin.hasData
            /\ SameSeq(ret.value, SARIMApredict(twin, ret.steps).value)

\* an entry as cache.addAll(ASSETS) stores it
Precached(e) == e.key \in AssetUrls /\ e.resp = Response(e.key, "GET", TRUE)

\* an entry stored for a GET request to the worker's own origin, holding the
\* ok response to that request
OkSameOriginGet(e) ==
    /\ e.resp.method = "GET" /\ e.resp.ok
    /\ e.resp.url = e.key /\ e.key.origin = SelfOrigin

\* the entries of the worker's cache; requests that are not GET; cached matches
WorkerCacheState ==
    /\ \A e \in EntriesOf(caches, CACHE_NAME) \cup puts :
           Precached(e) \/ OkSameOriginGet(e)
    /\ \A h \in flight :
           h.req.method # "GET" =>
               /\ h.stage = "done" /\ h.from = "browser"
               /\ ~h.hit /\ h.resp = NoResponse
    /\ \A h \in flight :
           h.hit => h.stage = "done" /\ h.from = "cache" /\ ~h.net

\* a run of the listener that finds a cached match ends with that response,
\* without a call of fetch; a request that is not a GET changes no cache
WorkerCacheStep ==
    /\ \A h \in flight :
           (h.stage = "match" /\ Match(caches, h.req).found /\ h \notin flight')
               => Handler(h.req, "done", "cache", TRUE, FALSE,
                          Match(caches, h.req).resp) \in flight'
    /\ \A h \in flight' \ flight :
           h.req.method # "GET" => caches' = caches /\ puts' = puts

\* C17: after any sequence of install, activate and fetch events, every entry
\* of the cache tindatech-v2 is a pre-cached asset or the ok response to a GET
\* request to the worker's own origin; a request that is not a GET is never
\* answered from a cache and never adds an entry; a GET request with a cached
\* match is answered with the cached response without a call of fetch.
C17_WorkerCache == []WorkerCacheState /\ [][WorkerCacheStep]_vars

C17_Witness ==
    /\ \E e \in EntriesOf(caches, CACHE_NAME) : e.key \in AssetUrls
    /\ \E e \in EntriesOf(caches, CACHE_NAME) : e.key \notin AssetUrls
    /\ \E h \in flight :
           /\ h.hit /\ h.from = "cache" /\ h.req.url \notin AssetUrls
           /\ Entry(h.req.url, h.resp) \in EntriesOf(caches, CACHE_NAME)
    /\ \E h \in flight : h.req.method = "POST" /\ h.from = "browser"
====
